---- MODULE Spec2Model ----
(***************************************************************************)
(* A model of googledrive.py: the GoogleDrive wrapper class, its retry     *)
(* loop, its path resolver, its file operations and its paginated listing, *)
(* run against a model of the remote files resource.                       *)
(*                                                                         *)
(* Representation.  Python strings are TLA+ strings and f-strings are      *)
(* built with \o, so a filter is the very text the code sends.  None is    *)
(* the value None below, and Str gives its formatted text.  A path         *)
(* argument is a record: isstr says whether it is a str (then id is the    *)
(* text) or a sequence of segments (segs).  A fields argument is the       *)
(* sequence of its comma-separated items, 'a,' + fields is <<"a">> \o      *)
(* fields, and the empty sequence is None.  An optional page token is a    *)
(* sequence of length 0 (None) or 1.                                       *)
(***************************************************************************)
EXTENDS Integers, Sequences, FiniteSets, TLC

VARIABLES
    max_retry,       \* self.max_retry
    retry_interval,  \* self.retry_interval
    files,           \* the remote store: the files, in creation order
    nextId,          \* the remote store: how many identifiers were allocated
    pc,              \* "idle", "try" (line 130), "sleep" (line 136),
                     \* "resume" (a wrapped call returned), "yield" (line 90)
    ctry,            \* the local ctry of the running __retry call
    request,         \* the request the running __execute call wraps
    response,        \* what the last successful attempt returned
    frame,           \* the running (or last finished) public operation
    rtrace,          \* the attempts and sleeps of the running __retry call
    reqlog,          \* the requests sent during the operation, one per
                     \* attempt, each with whether the attempt succeeded
                     \* and the stage of the operation that sent it
    files0,          \* the remote store when the operation was called
    prev,            \* what the operation before this one did
    gen,             \* the generator object each_files returned to the
                     \* caller: whether it was started, is suspended at
                     \* its yield or was closed, with its locals and the
                     \* requests it has sent
    session          \* the instance: whether __init__ built self.service and
                     \* self.drivefiles, the with statement around it, how
                     \* often self.service.close() ran, and the exception
                     \* that left the with statement

vars == <<max_retry, retry_interval, files, nextId, pc, ctry, request,
          response, frame, rtrace, reqlog, files0, prev, session, gen>>

-----------------------------------------------------------------------------
(* Bounds of the model *)

MaxRetry == 3        \* SpecRetry: max_retry ranges over -1..MaxRetry
MaxCtry == 4         \* attempts that may fail in a row when max_retry < 0
MaxInterval == 2     \* SpecRetry: retry_interval ranges over 1..MaxInterval
OpsRetry == 1        \* Spec, SpecList: max_retry ranges over 0..OpsRetry
MaxIds == 2          \* identifiers the remote store allocates
MaxListFiles == 4    \* SpecList: files in the store that is listed

(* Python's None, and the text str() gives it in an f-string *)
None == "<None>"

(* a formatting that puts root where no parent was found *)
Str_root(x) == IF x = None THEN "root" ELSE x

(* line 101: {parent_id} in the f-string *)
Str(x) == IF x = None THEN "None" ELSE x

(* Truth value of an optional string: None and '' are false *)
Truthy(x) == x # None /\ x # ""

Min(a, b) == IF a < b THEN a ELSE b

-----------------------------------------------------------------------------
(* Inputs the operations are called with *)

Names == {"x", "y"}
Contents == {"A", "B"}
Mimetypes == {"text/plain"}

StrPath(id) == [isstr |-> TRUE, id |-> id, segs |-> <<>>]
SeqPath(segs) == [isstr |-> FALSE, id |-> None, segs |-> segs]

FilePaths ==
    { StrPath("d2"), SeqPath(<<"dirA">>), SeqPath(<<"nodir", "subdir1">>) }

-----------------------------------------------------------------------------
(* The remote files resource, as the requests of googledrive.py see it.     *)
(* Its state is the folder tree Folders (fixed) and the files created so    *)
(* far (files); a record is [id, parent, name, content, mimetype].          *)

PageSize == 2

FolderType == "application/vnd.google-apps.folder"

Folders ==
    << [id |-> "d1", parent |-> "root", name |-> "dirA",
        content |-> None, mimetype |-> FolderType],
       [id |-> "d2", parent |-> "d1", name |-> "subdir1",
        content |-> None, mimetype |-> FolderType] >>

Nodes(fs) == Folders \o fs

IdsOf(fs) == { fs[i].id : i \in 1..Len(fs) }

FolderIds == {"root"} \cup IdsOf(Folders)

FileById(fs, id) == fs[CHOOSE i \in 1..Len(fs) : fs[i].id = id]

(* The requests: drivefiles.list / create / get_media / update / delete *)
NoRequest ==
    [kind |-> "none", q |-> "", fields |-> <<>>, pageToken |-> <<>>,
     fileId |-> None, name |-> None, parent |-> None,
     content |-> None, mimetype |-> None]

(* The remote service's reading of a filter: the dialect of section 6 *)
Matches(node, q) ==
    \/ q = ""
    \/ q = "'" \o node.parent \o "' in parents"
    \/ q = "name='" \o node.name \o "'"
    \/ q = "'" \o node.parent \o "' in parents and name='" \o node.name \o "'"

Matching(fs, q) == SelectSeq(Nodes(fs), LAMBDA node : Matches(node, q))

(* fields: which parts of a list response the selection asks for *)
AsksToken(fields) ==
    fields = <<>> \/ \E i \in 1..Len(fields) : fields[i] = "nextPageToken"

AsksFiles(fields) ==
    fields = <<>>
        \/ \E i \in 1..Len(fields) : fields[i] \in {"files(id)", "files(id,name)"}

AsksName(fields) ==
    fields = <<>> \/ \E i \in 1..Len(fields) : fields[i] = "files(id,name)"

Resource(node, fields) ==
    IF AsksName(fields) THEN [id |-> node.id, name |-> node.name]
    ELSE [id |-> node.id]

(* One page of a files.list response.  A missing key of the response is the *)
(* empty sequence: no 'files' array, no 'nextPageToken'.                    *)
ListResponse(fs, req) ==
    LET all == Matching(fs, req.q)
        off == IF req.pageToken = <<>> THEN 0 ELSE req.pageToken[1]
        last == Min(off + PageSize, Len(all))
        page == SubSeq(all, off + 1, last)
    IN  [files |-> IF AsksFiles(req.fields)
                   THEN [i \in 1..Len(page) |-> Resource(page[i], req.fields)]
                   ELSE <<>>,
         nextPageToken |-> IF last < Len(all) /\ AsksToken(req.fields)
                           THEN <<last>> ELSE <<>>,
         id |-> None, media |-> None]

NewId(n) == "f" \o ToString(n + 1)

(* The status of the error the service answers a request with, 0 if none *)
RemoteStatus(fs, req) ==
    CASE req.kind \in {"get_media", "update", "delete"} ->
            IF req.fileId \in IdsOf(fs) THEN 0 ELSE 404
      [] req.kind = "create" ->
            IF req.parent \in FolderIds THEN 0 ELSE 404
      [] OTHER -> 0

(* The store after the service has applied a request *)
StoreAfter(fs, n, req) ==
    CASE req.kind = "create" ->
            Append(fs, [id |-> NewId(n), parent |-> req.parent,
                        name |-> req.name, content |-> req.content,
                        mimetype |-> req.mimetype])
      [] req.kind = "update" ->
            [i \in 1..Len(fs) |->
                IF fs[i].id = req.fileId
                THEN [fs[i] EXCEPT !.content = req.content,
                                   !.mimetype = req.mimetype]
                ELSE fs[i]]
      [] req.kind = "delete" ->
            SelectSeq(fs, LAMBDA f : f.id # req.fileId)
      [] OTHER -> fs

IdsAfter(n, req) == IF req.kind = "create" THEN n + 1 ELSE n

(* What request.execute() returns when the service answers without error *)
ResponseTo(fs, n, req) ==
    CASE req.kind = "list" -> ListResponse(fs, req)
      [] req.kind = "create" ->
            [files |-> <<>>, nextPageToken |-> <<>>,
             id |-> NewId(n), media |-> None]
      [] req.kind = "get_media" ->
            [files |-> <<>>, nextPageToken |-> <<>>,
             id |-> None, media |-> FileById(fs, req.fileId).content]
      [] OTHER ->
            [files |-> <<>>, nextPageToken |-> <<>>,
             id |-> None, media |-> None]

NoResponse ==
    [files |-> <<>>, nextPageToken |-> <<>>, id |-> None, media |-> None]

-----------------------------------------------------------------------------
(* The state of the wrapper *)

NoError == [type |-> "none", status |-> 0, attempt |-> 0]

(* The locals of a public operation: its arguments, then its variables *)
NoFrame ==
    [op |-> "none", path |-> SeqPath(<<>>), name |-> None, content |-> None,
     mimetype |-> None, query |-> None, fields |-> <<>>, file_id |-> None,
     stage |-> "none", parent_id |-> None, rest |-> <<>>, fileid |-> None,
     q |-> "", page_token |-> <<>>, page |-> <<>>, out |-> <<>>,
     outcome |-> "none", result |-> None, exc |-> NoError]

NoPrev ==
    [op |-> "none", path |-> SeqPath(<<>>), name |-> None, content |-> None,
     mimetype |-> None, result |-> None, kinds |-> {}, absent |-> FALSE]

Kinds(log) == { log[i].req.kind : i \in 1..Len(log) }

(* The first match of a name under a parent in a store, None if none *)
Lookup(fs, parent, name) ==
    LET hits == SelectSeq(Nodes(fs),
                          LAMBDA n : n.parent = parent /\ n.name = name)
    IN  IF hits = <<>> THEN None ELSE hits[1].id

(* The container a path names in the folder tree, None if it names none *)
RECURSIVE Walk(_, _)
Walk(parent, segs) ==
    IF segs = <<>> THEN parent
    ELSE Walk(Lookup(<<>>, parent, Head(segs)), Tail(segs))

Container(path) == IF path.isstr THEN path.id ELSE Walk("root", path.segs)

(* What the next operation remembers of this one *)
Summary(f, log, fs0) ==
    IF f.op = "write" /\ f.outcome = "returned"
    THEN [op |-> "write", path |-> f.path, name |-> f.name,
          content |-> f.content, mimetype |-> f.mimetype,
          result |-> f.result, kinds |-> Kinds(log),
          absent |-> Lookup(fs0, Container(f.path), f.name) = None]
    ELSE NoPrev

(* No generator object is in the caller's hands *)
NoGen == [state |-> "none", frame |-> NoFrame, log |-> <<>>]

(* The instance before __init__ ran, and after it returned *)
NoSession ==
    [built |-> FALSE, scope |-> "none", closed |-> 0, body |-> NoError,
     propagated |-> NoError]

Constructed == [NoSession EXCEPT !.built = TRUE]

(* The arguments of the constructor and the store it finds *)
Configured(retries, intervals, stores) ==
    /\ max_retry \in retries
    /\ retry_interval \in intervals
    /\ files \in stores
    /\ nextId = Len(files)
    /\ pc = "idle"
    /\ ctry = 0
    /\ request = NoRequest
    /\ response = NoResponse
    /\ frame = NoFrame
    /\ rtrace = <<>>
    /\ reqlog = <<>>
    /\ files0 = files
    /\ prev = NoPrev
    /\ gen = NoGen

(* The state after construction (lines 25-33), on one of these stores *)
Start(retries, intervals, stores) ==
    /\ Configured(retries, intervals, stores)
    /\ session = Constructed

-----------------------------------------------------------------------------
(* __execute and __retry (lines 123-136) *)

Event(ev, type, status, secs) ==
    [ev |-> ev, type |-> type, status |-> status, secs |-> secs]

Calls(tr) == Len(SelectSeq(tr, LAMBDA e : e.ev # "sleep"))
Sleeps(tr) == Len(SelectSeq(tr, LAMBDA e : e.ev = "sleep"))

(* a counter that outlives the call: self.ctry instead of a local *)
FreshCtry_kept(c) == c

(* line 127: ctry = 0 *)
FreshCtry(c) == 0

(* line 124, line 127: a wrapped call starts with ctry = 0 *)
Send(f, req) ==
    /\ frame' = f
    /\ request' = req
    /\ pc' = "try"
    /\ ctry' = FreshCtry(ctry)
    /\ rtrace' = <<>>

(* a public operation returns to its caller *)
Return(f, value) ==
    /\ frame' = [f EXCEPT !.outcome = "returned", !.result = value]
    /\ pc' = "idle"
    /\ UNCHANGED <<request, ctry, rtrace>>

(* a loop that gives up one failure later: ctry == self.max_retry + 1 *)
Exhausted_late(c, m) == c = m + 1

(* line 132: no retry is left *)
Exhausted(c, m) == c = m

(* a loop that sleeps the default interval: sleep(1) *)
SleepSeconds_default(interval) == 1

(* line 136: the argument of sleep *)
SleepSeconds(interval) == interval

(* line 131: the exception classes the loop catches *)
Caught(type) == type \in {"TimeoutError", "HttpError"}

(* lines 131-136: function() raised an exception of this type and status *)
Except(type, status) ==
    LET e == [type |-> type, status |-> status, attempt |-> Calls(rtrace) + 1]
    IN  /\ rtrace' = Append(rtrace, Event("fail", type, status, 0))
        /\ reqlog' = Append(reqlog, [req |-> request, ok |-> FALSE,
                                     stage |-> frame.stage])
        /\ IF Caught(type) /\ ~Exhausted(ctry, max_retry)
           THEN /\ ctry' = ctry + 1
                /\ pc' = "sleep"
                /\ frame' = frame
           ELSE /\ ctry' = ctry
                /\ pc' = "idle"
                /\ frame' = [frame EXCEPT !.outcome = "raised", !.exc = e]
        /\ UNCHANGED <<max_retry, retry_interval, request, response, files0,
                       prev, session, gen>>

(* line 130: function() returns *)
execute_ok ==
    /\ pc = "try"
    /\ RemoteStatus(files, request) = 0
    /\ files' = StoreAfter(files, nextId, request)
    /\ nextId' = IdsAfter(nextId, request)
    /\ response' = ResponseTo(files, nextId, request)
    /\ rtrace' = Append(rtrace, Event("ok", "none", 0, 0))
    /\ reqlog' = Append(reqlog, [req |-> request, ok |-> TRUE,
                                  stage |-> frame.stage])
    /\ pc' = "resume"
    /\ UNCHANGED <<max_retry, retry_interval, ctry, request, frame, files0,
                   prev, session, gen>>

(* line 130: function() raises TimeoutError; the request was lost on its   *)
(* way to the service, or the answer on its way back (applied)              *)
execute_timeout ==
    /\ pc = "try"
    /\ ctry < MaxCtry
    /\ \E applied \in BOOLEAN :
        /\ applied =>
            /\ request.kind \in {"create", "update", "delete"}
            /\ RemoteStatus(files, request) = 0
            /\ request.kind = "create" => nextId + 1 < MaxIds
        /\ files' = IF applied THEN StoreAfter(files, nextId, request)
                    ELSE files
        /\ nextId' = IF applied THEN IdsAfter(nextId, request) ELSE nextId
    /\ Except("TimeoutError", 0)

(* line 130: function() raises HttpError: the service answers 404 for what *)
(* the request names and is not there, and may answer 403 (permission      *)
(* denied) or 503 (unavailable) at any time                                 *)
execute_http_error ==
    /\ pc = "try"
    /\ ctry < MaxCtry
    /\ \E status \in {404, 503} :
        /\ status = 404 => RemoteStatus(files, request) = 404
        /\ Except("HttpError", status)
    /\ UNCHANGED <<files, nextId>>

(* line 130: function() raises an exception of another class *)
execute_other_error ==
    /\ pc = "try"
    /\ Except("OtherError", 0)
    /\ UNCHANGED <<files, nextId>>

(* line 136: sleep(self.retry_interval), then the loop tries again *)
sleep ==
    /\ pc = "sleep"
    /\ rtrace' = Append(rtrace, Event("sleep", "none", 0,
                                      SleepSeconds(retry_interval)))
    /\ pc' = "try"
    /\ UNCHANGED <<max_retry, retry_interval, files, nextId, ctry, request,
                   response, frame, reqlog, files0, prev, session, gen>>

-----------------------------------------------------------------------------
(* The requests the identifier layer builds (lines 85-87, 100-121) *)

ListRequest(q, fields, page_token) ==
    [NoRequest EXCEPT !.kind = "list", !.q = q, !.fields = fields,
                      !.pageToken = page_token]

(* a lookup whose filter leaves the parent out *)
GetIdRequest_noparent(parent_id, name) ==
    ListRequest("name='" \o name \o "'", <<"files(id)">>, <<>>)

(* lines 100-102 *)
GetIdRequest(parent_id, name) ==
    ListRequest("'" \o Str(parent_id) \o "' in parents and name='"
                    \o name \o "'",
                <<"files(id)">>, <<>>)

(* a lookup that takes the last match instead of the first *)
GetIdResult_last(resp) ==
    IF resp.files = <<>> THEN None ELSE resp.files[Len(resp.files)].id

(* line 104: next(iter(files), {}).get('id', None) *)
GetIdResult(resp) == IF resp.files = <<>> THEN None ELSE resp.files[1].id

(* lines 107-109 *)
CreateRequest(parent_id, name, content, mimetype) ==
    [NoRequest EXCEPT !.kind = "create", !.name = name, !.parent = parent_id,
                      !.content = content, !.mimetype = mimetype]

(* line 113 *)
GetMediaRequest(file_id) ==
    [NoRequest EXCEPT !.kind = "get_media", !.fileId = file_id]

(* an update that carries no new content: the stored bytes stay *)
UpdateRequest_nomedia(file_id, content, mimetype) ==
    [NoRequest EXCEPT !.kind = "update", !.fileId = file_id,
                      !.content = IF file_id \in IdsOf(files)
                                   THEN FileById(files, file_id).content
                                   ELSE content,
                      !.mimetype = mimetype]

(* lines 116-117 *)
UpdateRequest(file_id, content, mimetype) ==
    [NoRequest EXCEPT !.kind = "update", !.fileId = file_id,
                      !.content = content, !.mimetype = mimetype]

(* line 121 *)
DeleteRequest(file_id) ==
    [NoRequest EXCEPT !.kind = "delete", !.fileId = file_id]

(* a filter that drops the caller's query when a parent is given *)
EachFilesQuery_noquery(parent_id, query) ==
    IF Truthy(parent_id) THEN "'" \o parent_id \o "' in parents"
    ELSE IF Truthy(query) THEN query ELSE ""

(* lines 71-80: the filter of a listing *)
EachFilesQuery(parent_id, query) ==
    IF Truthy(parent_id)
    THEN IF Truthy(query)
         THEN "'" \o parent_id \o "' in parents and " \o query
         ELSE "'" \o parent_id \o "' in parents"
    ELSE IF Truthy(query) THEN query ELSE ""

(* line 81: fields and 'nextPageToken' in fields *)
MentionsToken(fields) ==
    \E i \in 1..Len(fields) : fields[i] = "nextPageToken"

(* lines 81-82: the fields selection of a listing *)
EachFilesFields(fields) ==
    IF fields # <<>> /\ MentionsToken(fields)
    THEN <<"nextPageToken">> \o fields
    ELSE fields

-----------------------------------------------------------------------------
(* The public operations *)

(* a call of a public operation starts from the caller's side *)
Call ==
    /\ pc = "idle"
    /\ session.built
    /\ session.scope # "exited"
    /\ prev' = Summary(frame, reqlog, files0)
    /\ files0' = files
    /\ reqlog' = <<>>
    /\ response' = NoResponse
    /\ UNCHANGED <<max_retry, retry_interval, files, nextId, session, gen>>

(* lines 83-88: each_files builds its filter and asks for the first page *)
EachFilesStart(f, parent_id) ==
    LET q == EachFilesQuery(parent_id, f.query)
    IN  Send([f EXCEPT !.stage = "page", !.parent_id = parent_id, !.q = q,
                       !.page_token = <<>>],
             ListRequest(q, EachFilesFields(f.fields), <<>>))

(* the parent is known: lines 46, 54, 68, and the return of get_path_id *)
AfterPath(f, parent_id) ==
    CASE f.op \in {"read", "write"} ->
            Send([f EXCEPT !.stage = "name", !.parent_id = parent_id],
                 GetIdRequest(parent_id, f.name))
      [] f.op = "list" -> EachFilesStart(f, parent_id)
      [] OTHER -> Return([f EXCEPT !.parent_id = parent_id], parent_id)

(* lines 95-97: reduce starts at root_id and looks the first segment up *)
GetPathId(f, path, root_id) ==
    IF path = <<>> THEN AfterPath(f, root_id)
    ELSE Send([f EXCEPT !.stage = "path", !.parent_id = root_id,
                        !.rest = path],
              GetIdRequest(root_id, Head(path)))

(* lines 42-45, 50-53 *)
ResolveParent(f) ==
    IF f.path.isstr THEN AfterPath(f, f.path.id)
    ELSE GetPathId(f, f.path.segs, "root")

(* lines 41-45 *)
read(path, name) ==
    /\ Call
    /\ ResolveParent([NoFrame EXCEPT !.op = "read", !.path = path,
                                     !.name = name])

(* lines 49-53 *)
write(path, name, content, mimetype) ==
    /\ Call
    /\ nextId < MaxIds \/ Lookup(files, Container(path), name) # None
    /\ ResolveParent([NoFrame EXCEPT !.op = "write", !.path = path,
                                     !.name = name, !.content = content,
                                     !.mimetype = mimetype])

(* lines 61-68 *)
list(path, query, fields) ==
    /\ Call
    /\ LET f == [NoFrame EXCEPT !.op = "list", !.path = path,
                                !.query = query, !.fields = fields]
       IN  IF path.isstr THEN AfterPath(f, path.id)
           ELSE IF path.segs # <<>> THEN GetPathId(f, path.segs, "root")
           ELSE AfterPath(f, None)

(* lines 95-97 *)
get_path_id(path) ==
    /\ Call
    /\ GetPathId([NoFrame EXCEPT !.op = "get_path_id",
                                 !.path = SeqPath(path)],
                 path, "root")

(* line 70: a call of each_files by the caller runs none of its body; it
   hands back a generator object that holds the arguments *)
each_files(parent_id, query, fields) ==
    /\ pc = "idle"
    /\ session.built
    /\ session.scope # "exited"
    /\ gen' = [state |-> "created",
               frame |-> [NoFrame EXCEPT !.op = "each_files",
                                         !.parent_id = parent_id,
                                         !.query = query, !.fields = fields],
               log |-> <<>>]
    /\ UNCHANGED <<max_retry, retry_interval, files, nextId, pc, ctry,
                   request, response, frame, rtrace, reqlog, files0, prev,
                   session>>

(* next(gen) by the caller: a generator that has not started runs lines
   71-88 and sends its first request; a suspended one goes on after its
   yield (line 90) with the locals it was suspended with *)
each_files_advance ==
    /\ pc = "idle"
    /\ session.built
    /\ session.scope # "exited"
    /\ gen.state \in {"created", "suspended"}
    /\ gen' = [gen EXCEPT !.state = "running"]
    /\ prev' = Summary(frame, reqlog, files0)
    /\ files0' = files
    /\ reqlog' = gen.log
    /\ IF gen.state = "created"
       THEN /\ EachFilesStart(gen.frame, gen.frame.parent_id)
            /\ response' = NoResponse
       ELSE /\ frame' = [gen.frame EXCEPT !.outcome = "none"]
            /\ pc' = "yield"
            /\ UNCHANGED <<request, response, ctry, rtrace>>
    /\ UNCHANGED <<max_retry, retry_interval, files, nextId, session>>

(* gen.close() by the caller, or the generator is dropped: the loop of
   lines 84-93 is never entered again *)
each_files_close ==
    /\ pc = "idle"
    /\ gen.state \in {"created", "suspended"}
    /\ gen' = [gen EXCEPT !.state = "closed"]
    /\ UNCHANGED <<max_retry, retry_interval, files, nextId, pc, ctry,
                   request, response, frame, rtrace, reqlog, files0, prev,
                   session>>

(* lines 99-103 *)
get_id(parent_id, name) ==
    /\ Call
    /\ Send([NoFrame EXCEPT !.op = "get_id", !.stage = "name",
                            !.parent_id = parent_id, !.name = name],
            GetIdRequest(parent_id, name))

(* lines 112-113 *)
read_file_id(file_id) ==
    /\ Call
    /\ Send([NoFrame EXCEPT !.op = "read_file_id", !.stage = "media",
                            !.file_id = file_id],
            GetMediaRequest(file_id))

(* lines 115-118 *)
update_file_id(file_id, content, mimetype) ==
    /\ Call
    /\ Send([NoFrame EXCEPT !.op = "update_file_id", !.stage = "update",
                            !.file_id = file_id, !.content = content,
                            !.mimetype = mimetype],
            UpdateRequest(file_id, content, mimetype))

(* lines 106-110 *)
create_file(parent_id, name, content, mimetype) ==
    /\ Call
    /\ nextId < MaxIds
    /\ Send([NoFrame EXCEPT !.op = "create_file", !.stage = "create",
                            !.parent_id = parent_id, !.name = name,
                            !.content = content, !.mimetype = mimetype],
            CreateRequest(parent_id, name, content, mimetype))

(* lines 120-121 *)
delete_file_id(file_id) ==
    /\ Call
    /\ Send([NoFrame EXCEPT !.op = "delete_file_id", !.stage = "delete",
                            !.file_id = file_id],
            DeleteRequest(file_id))

(* a wrapped call returned: everything but the operation's own state stays *)
Resume(stage) ==
    /\ pc = "resume"
    /\ frame.stage = stage
    /\ UNCHANGED <<max_retry, retry_interval, files, nextId, response,
                   reqlog, files0, prev, session, gen>>

(* a reduce whose accumulator never moves off root_id *)
Reduced_root(acc, found) == acc

(* line 96: what the reduce lambda returns is the next accumulator *)
Reduced(acc, found) == found

(* line 96: get_id returns into reduce, which goes on with the next segment *)
get_path_id_step ==
    /\ Resume("path")
    /\ LET parent == Reduced(frame.parent_id, GetIdResult(response))
           rest == Tail(frame.rest)
       IN  IF rest = <<>> THEN AfterPath([frame EXCEPT !.rest = rest], parent)
           ELSE Send([frame EXCEPT !.parent_id = parent, !.rest = rest],
                     GetIdRequest(parent, Head(rest)))

(* lines 46-47 *)
read_found ==
    /\ Resume("name")
    /\ frame.op = "read"
    /\ LET fileid == GetIdResult(response)
           f == [frame EXCEPT !.fileid = fileid]
       IN  IF Truthy(fileid)
           THEN Send([f EXCEPT !.stage = "media"], GetMediaRequest(fileid))
           ELSE Return(f, None)

(* lines 54-59 *)
write_found ==
    /\ Resume("name")
    /\ frame.op = "write"
    /\ LET fileid == GetIdResult(response)
           f == [frame EXCEPT !.fileid = fileid]
       IN  IF Truthy(fileid)
           THEN Send([f EXCEPT !.stage = "update"],
                     UpdateRequest(fileid, f.content, f.mimetype))
           ELSE Send([f EXCEPT !.stage = "create"],
                     CreateRequest(f.parent_id, f.name, f.content,
                                   f.mimetype))

(* lines 113, 47: read_file_id returns the content, read returns it *)
read_file_id_return ==
    /\ Resume("media")
    /\ Return(frame, response.media)

(* line 104: get_id returns the first match to its caller *)
get_id_return ==
    /\ Resume("name")
    /\ frame.op = "get_id"
    /\ Return(frame, GetIdResult(response))

(* lines 118, 56-57: update_file_id returns None; inside write, write then
   returns fileid *)
update_file_id_return ==
    /\ Resume("update")
    /\ Return(frame, IF frame.op = "write" THEN frame.fileid ELSE None)

(* lines 110, 59: create_file returns the 'id' of the response *)
create_file_return ==
    /\ Resume("create")
    /\ Return(frame, response.id)

(* line 121 *)
delete_file_id_return ==
    /\ Resume("delete")
    /\ Return(frame, None)

(* a page loop that forgets the token of the response *)
PageTokenOf_none(resp) == <<>>

(* line 91: response.get('nextPageToken', None) *)
PageTokenOf(resp) == resp.nextPageToken

(* a page loop that drops the first record of every page *)
PageRecords_rest(resp) ==
    IF resp.files = <<>> THEN <<>> ELSE Tail(resp.files)

(* line 89: response.get('files', []) *)
PageRecords(resp) == resp.files

(* lines 88-91: a page arrived; its records are handed out one by one *)
each_files_page ==
    /\ Resume("page")
    /\ frame' = [frame EXCEPT !.page = PageRecords(response),
                              !.page_token = PageTokenOf(response)]
    /\ pc' = "yield"
    /\ UNCHANGED <<request, ctry, rtrace>>

(* lines 89-90, 68: the generator yields a record.  Inside list() the
   consumer appends it and asks for the next at once; a generator in the
   caller's hands is suspended and the caller goes on *)
each_files_yield ==
    /\ pc = "yield"
    /\ frame.page # <<>>
    /\ LET f == [frame EXCEPT !.page = Tail(frame.page),
                              !.out = Append(frame.out, Head(frame.page))]
       IN  IF frame.op = "each_files"
           THEN LET g == [f EXCEPT !.outcome = "yielded"]
                IN  /\ frame' = g
                    /\ pc' = "idle"
                    /\ gen' = [state |-> "suspended", frame |-> g,
                               log |-> reqlog]
           ELSE /\ frame' = f
                /\ UNCHANGED <<pc, gen>>
    /\ UNCHANGED <<max_retry, retry_interval, files, nextId, ctry,
                   request, response, rtrace, reqlog, files0, prev, session>>

(* lines 91-93, 84-88: the page is exhausted; stop, or ask for the next *)
each_files_next ==
    /\ pc = "yield"
    /\ frame.page = <<>>
    /\ IF frame.page_token = <<>> THEN Return(frame, None)
       ELSE Send(frame, ListRequest(frame.q, EachFilesFields(frame.fields),
                                    frame.page_token))
    /\ UNCHANGED <<max_retry, retry_interval, files, nextId, response,
                   reqlog, files0, prev, session, gen>>

-----------------------------------------------------------------------------
(* The instance: its construction and the with statement around it *)

(* line 29: build('drive', 'v3', credentials=credentials) *)
BuildRequest == [NoRequest EXCEPT !.kind = "build"]

(* line 32: self.service.files() *)
FilesRequest == [NoRequest EXCEPT !.kind = "files"]

(* lines 25-30: the constructor stores its arguments and builds the service
   handle through the retry wrapper *)
__init__ ==
    /\ pc = "idle"
    /\ ~session.built
    /\ prev' = Summary(frame, reqlog, files0)
    /\ files0' = files
    /\ reqlog' = <<>>
    /\ response' = NoResponse
    /\ Send([NoFrame EXCEPT !.op = "__init__", !.stage = "build"],
            BuildRequest)
    /\ UNCHANGED <<max_retry, retry_interval, files, nextId, session, gen>>

(* lines 28-33: self.service is set; the files resource is asked for, again
   through the retry wrapper *)
init_service ==
    /\ Resume("build")
    /\ Send([frame EXCEPT !.stage = "files"], FilesRequest)

(* lines 31-33: self.drivefiles is set and the constructor returns *)
init_drivefiles ==
    /\ pc = "resume"
    /\ frame.stage = "files"
    /\ session' = [session EXCEPT !.built = TRUE]
    /\ Return(frame, None)
    /\ UNCHANGED <<max_retry, retry_interval, files, nextId, response,
                   reqlog, files0, prev, gen>>

(* lines 35-36: the with statement enters; __enter__ returns self *)
__enter__ ==
    /\ pc = "idle"
    /\ session.built
    /\ session.scope = "none"
    /\ session' = [session EXCEPT !.scope = "in"]
    /\ UNCHANGED <<max_retry, retry_interval, files, nextId, pc, ctry,
                   request, response, frame, rtrace, reqlog, files0, prev,
                   gen>>

(* an exception of the body's own *)
BodyError == [type |-> "KeyError", status |-> 0, attempt |-> 0]

(* What can leave the body of the with statement: nothing (NoError), the
   exception the last operation raised, or an exception of the body's own *)
BodyExceptions ==
    {NoError, BodyError}
        \cup (IF frame.outcome = "raised" THEN {frame.exc} ELSE {})

(* an __exit__ that returns a true value *)
ExitResult_true == TRUE

(* lines 38-39: __exit__ has no return statement; its result None is false *)
ExitResult == FALSE

(* lines 38-39: the with statement leaves, by completion or by an exception
   of its body; __exit__ closes the service handle, and the exception goes
   on to the caller unless __exit__ returned a true value *)
__exit__(exc_value) ==
    /\ pc = "idle"
    /\ session.scope = "in"
    /\ session' = [session EXCEPT
                      !.scope = "exited",
                      !.closed = @ + 1,
                      !.body = exc_value,
                      !.propagated = IF ExitResult THEN NoError
                                     ELSE exc_value]
    /\ UNCHANGED <<max_retry, retry_interval, files, nextId, pc, ctry,
                   request, response, frame, rtrace, reqlog, files0, prev,
                   gen>>

-----------------------------------------------------------------------------
(* The specifications *)

ListPaths ==
    { SeqPath(<<>>), StrPath("d1"), StrPath(""), SeqPath(<<"dirA">>),
      SeqPath(<<"nodir">>) }

Queries == {None, "", "name='x'"}

FieldsArgs ==
    { <<>>, <<"files(id)">>, <<"nextPageToken", "files(id)">> }

SegPaths ==
    { <<>>, <<"dirA">>, <<"dirA", "subdir1">>, <<"nodir", "subdir1">>,
      <<"dirA", "nodir", "subdir1">> }

ReadPaths == { SeqPath(<<"dirA">>), SeqPath(<<"nodir", "subdir1">>) }

FileIds == {"f1", "f9"}

(* Spec: the file operations on a store that starts empty *)
Init == Start(0..OpsRetry, {1}, {<<>>})

Next ==
    \/ \E path \in FilePaths, name \in Names : read(path, name)
    \/ \E path \in FilePaths, name \in Names, content \in Contents,
          mimetype \in Mimetypes : write(path, name, content, mimetype)
    \/ \E name \in Names, mimetype \in Mimetypes :
          create_file("d1", name, "A", mimetype)
    \/ \E file_id \in FileIds : delete_file_id(file_id)
    \/ \E file_id \in FileIds, mimetype \in Mimetypes :
          update_file_id(file_id, "B", mimetype)
    \/ execute_ok
    \/ execute_timeout
    \/ execute_http_error
    \/ execute_other_error
    \/ sleep
    \/ get_path_id_step
    \/ read_found
    \/ write_found
    \/ read_file_id_return
    \/ update_file_id_return
    \/ create_file_return
    \/ delete_file_id_return

Spec == Init /\ [][Next]_vars

(* SpecList: listing and path resolution on the stores create_file leaves *)
Catalogue ==
    [i \in 1..MaxListFiles |->
        [id |-> NewId(i - 1), parent |-> "d1",
         name |-> IF i = 2 THEN "y" ELSE "x",
         content |-> "A", mimetype |-> "text/plain"]]

ListStores == { SubSeq(Catalogue, 1, k) : k \in 0..MaxListFiles }

InitList == Start(0..OpsRetry, {1}, ListStores)

NextList ==
    \/ \E path \in ListPaths, query \in Queries, fields \in FieldsArgs :
          list(path, query, fields)
    \/ \E path \in SegPaths : get_path_id(path)
    \/ \E path \in ReadPaths : read(path, "x")
    \/ \E parent_id \in {None, "d1"} : get_id(parent_id, "x")
    \/ \E file_id \in FileIds : read_file_id(file_id)
    \/ execute_ok
    \/ execute_timeout
    \/ execute_http_error
    \/ execute_other_error
    \/ sleep
    \/ get_path_id_step
    \/ read_found
    \/ get_id_return
    \/ read_file_id_return
    \/ each_files_page
    \/ each_files_yield
    \/ each_files_next

SpecList == InitList /\ [][NextList]_vars

(* SpecGen: generators of each_files in the caller's hands, advanced record
   by record, closed or dropped, with lookups by the caller in between *)
InitGen == Start(0..OpsRetry, {1}, ListStores)

NextGen ==
    \/ \E parent_id \in {None, "d1"}, query \in {None, "name='x'"},
          fields \in {<<>>, <<"files(id)">>} :
          each_files(parent_id, query, fields)
    \/ each_files_advance
    \/ each_files_close
    \/ get_id("d1", "x")
    \/ execute_ok
    \/ execute_timeout
    \/ execute_http_error
    \/ execute_other_error
    \/ sleep
    \/ get_id_return
    \/ each_files_page
    \/ each_files_yield
    \/ each_files_next

SpecGen == InitGen /\ [][NextGen]_vars

(* SpecSession: an instance from its construction to the end of the with
   statement around it, with every public operation *)
InitSession ==
    /\ Configured(0..OpsRetry, {1},
                  {SubSeq(Catalogue, 1, 1), SubSeq(Catalogue, 1, 3)})
    /\ session = NoSession

NextSession ==
    \/ __init__
    \/ __enter__
    \/ \E exc_value \in BodyExceptions : __exit__(exc_value)
    \/ read(SeqPath(<<"dirA">>), "x")
    \/ \E mimetype \in Mimetypes :
          write(SeqPath(<<"dirA">>), "y", "B", mimetype)
    \/ list(SeqPath(<<"dirA">>), None, <<>>)
    \/ get_path_id(<<"dirA", "subdir1">>)
    \/ delete_file_id("f1")
    \/ each_files("d1", None, <<>>)
    \/ get_id("d1", "x")
    \/ read_file_id("f1")
    \/ \E mimetype \in Mimetypes : update_file_id("f1", "B", mimetype)
    \/ execute_ok
    \/ execute_timeout
    \/ execute_http_error
    \/ execute_other_error
    \/ sleep
    \/ init_service
    \/ init_drivefiles
    \/ get_path_id_step
    \/ read_found
    \/ write_found
    \/ get_id_return
    \/ read_file_id_return
    \/ update_file_id_return
    \/ create_file_return
    \/ delete_file_id_return
    \/ each_files_advance
    \/ each_files_close
    \/ each_files_page
    \/ each_files_yield
    \/ each_files_next

SpecSession == InitSession /\ [][NextSession]_vars

(* SpecRetry: the retry loop under every configured max_retry *)
InitRetry == Start((0 - 1)..MaxRetry, 1..MaxInterval, {<<>>})

NextRetry ==
    \/ \E mimetype \in Mimetypes : create_file("d1", "x", "A", mimetype)
    \/ \E file_id \in FileIds : delete_file_id(file_id)
    \/ \E mimetype \in Mimetypes : update_file_id("f1", "B", mimetype)
    \/ \E path \in SegPaths : get_path_id(path)
    \/ execute_ok
    \/ execute_timeout
    \/ execute_http_error
    \/ execute_other_error
    \/ sleep
    \/ get_path_id_step
    \/ create_file_return
    \/ update_file_id_return
    \/ delete_file_id_return

SpecRetry == InitRetry /\ [][NextRetry]_vars

-----------------------------------------------------------------------------
(* The retry loop: C1, C2, C3 (checked under SpecRetry) *)

(* The error classes the service is expected to recover from *)
Transient(e) ==
    \/ e.type = "TimeoutError"
    \/ e.type = "HttpError" /\ e.status = 503

Failures(tr) == SelectSeq(tr, LAMBDA e : e.ev = "fail")

AllTransient(tr) ==
    \A i \in 1..Len(tr) : tr[i].ev = "fail" => Transient(tr[i])

(* the wrapped call has just raised to the caller of the operation *)
RetryRaised == pc = "idle" /\ frame.outcome = "raised" /\ rtrace # <<>>

(* the wrapped call has just returned *)
RetryReturned == pc = "resume"

(* C1: with max_retry >= 0, a wrapped operation that fails with a transient
   error on every attempt is invoked exactly max_retry + 1 times, the loop
   sleeps exactly max_retry times, and the exception that reaches the caller
   is the one the last attempt raised; attempt max_retry + 2 never happens. *)
C1_AllAttemptsFail ==
    max_retry >= 0 =>
        /\ Calls(rtrace) <= max_retry + 1
        /\ (RetryRaised /\ AllTransient(rtrace)) =>
              /\ Calls(rtrace) = max_retry + 1
              /\ Sleeps(rtrace) = max_retry
              /\ LET last == rtrace[Len(rtrace)]
                 IN  /\ last.ev = "fail"
                     /\ frame.exc = [type |-> last.type,
                                     status |-> last.status,
                                     attempt |-> max_retry + 1]

C1_Witness ==
    /\ RetryRaised
    /\ AllTransient(rtrace)
    /\ max_retry = 3
    /\ Calls(rtrace) = 4
    /\ Sleeps(rtrace) = 3

(* C2: when the first k attempts fail with a transient error and attempt
   k + 1 succeeds (k <= max_retry), the wrapped call returns the result of
   that attempt; the loop slept exactly k times, once for retry_interval
   seconds after each failed attempt and never after the successful one. *)
C2_SucceedsAfterFailures ==
    (RetryReturned /\ AllTransient(rtrace)) =>
        LET k == Len(Failures(rtrace))
        IN  /\ Len(rtrace) = 2 * k + 1
            /\ max_retry >= 0 => k <= max_retry
            /\ Sleeps(rtrace) = k
            /\ \A i \in 1..k :
                  /\ rtrace[2 * i - 1].ev = "fail"
                  /\ rtrace[2 * i].ev = "sleep"
                  /\ rtrace[2 * i].secs = retry_interval
            /\ rtrace[2 * k + 1].ev = "ok"
            /\ request.kind = "list" => response = ListResponse(files, request)
            /\ request.kind = "create" =>
                  response.id = files[Len(files)].id

C2_Witness ==
    /\ RetryReturned
    /\ AllTransient(rtrace)
    /\ max_retry = 3
    /\ retry_interval = 2
    /\ Len(Failures(rtrace)) = 2
    /\ Sleeps(rtrace) = 2

(* C3, as claimed: a call that the service answers with a non-transient
   error (404 for a delete of an identifier that does not exist) is
   executed once: no sleep and no second attempt follow it. *)
C3_PermanentErrorNotRetried ==
    (rtrace # <<>> /\ rtrace[1].ev = "fail" /\ rtrace[1].type = "HttpError"
        /\ rtrace[1].status = 404) => Len(rtrace) = 1

-----------------------------------------------------------------------------
(* read and write: C4, C5, C6, C7 (checked under Spec) *)

Finished(op) == pc = "idle" /\ frame.op = op
Returned(op) == Finished(op) /\ frame.outcome = "returned"

(* The files of a store with this name under this parent *)
Named(fs, parent, name) ==
    SelectSeq(fs, LAMBDA f : f.parent = parent /\ f.name = name)

(* this operation comes right after a write that returned, on the same
   container and name *)
FollowsWrite ==
    /\ prev.op = "write"
    /\ Container(prev.path) = Container(frame.path)
    /\ prev.name = frame.name

(* C4: a read that comes right after a write to the same parent and name
   returns exactly the bytes that write was given, whether the write found
   the name (update) or not (create). *)
C4_WriteThenRead ==
    (Returned("read") /\ FollowsWrite) => frame.result = prev.content

C4_Witness ==
    /\ Returned("read")
    /\ FollowsWrite
    /\ ~prev.absent
    /\ "update" \in prev.kinds
    /\ frame.result = "B"
    /\ \E i \in 1..Len(files0) : files0[i].content = "A"

(* C5: a write on a name that resolves under the parent sends update and no
   create, returns the identifier the name resolved to before the call, and
   leaves that file's identifier, name and parent as they were; a write on a
   name that does not resolve sends create and no update and returns an
   identifier that no file or folder had before the call. *)
C5_WriteUpsert ==
    Returned("write") =>
        LET before == Lookup(files0, Container(frame.path), frame.name)
        IN  IF before # None
            THEN /\ "update" \in Kinds(reqlog)
                 /\ "create" \notin Kinds(reqlog)
                 /\ frame.result = before
                 /\ before \in IdsOf(files)
                 /\ FileById(files, before).name = FileById(files0, before).name
                 /\ FileById(files, before).parent
                        = FileById(files0, before).parent
            ELSE /\ "create" \in Kinds(reqlog)
                 /\ "update" \notin Kinds(reqlog)
                 /\ frame.result # None
                 /\ frame.result \notin IdsOf(files0) \cup FolderIds
                 /\ frame.result \in IdsOf(files)

C5_Witness ==
    /\ Returned("write")
    /\ Lookup(files0, Container(frame.path), frame.name) = None
    /\ files0 # <<>>
    /\ frame.result = "f2"
    /\ Len(files) = 2

(* C6, as claimed: of two consecutive writes with the same arguments on a
   name that was absent, the first creates, the second updates the file the
   first returned, and afterwards exactly one file has that name under the
   parent, holding the content written. *)
C6_WriteTwice ==
    (Returned("write") /\ FollowsWrite /\ prev.absent
        /\ prev.content = frame.content /\ prev.mimetype = frame.mimetype) =>
        LET same == Named(files, Container(frame.path), frame.name)
        IN  /\ prev.kinds = {"list", "create"}
            /\ Kinds(reqlog) = {"list", "update"}
            /\ frame.result = prev.result
            /\ Len(same) = 1
            /\ same[1].content = frame.content

(* C7: a read of a name that does not exist under a valid parent sends no
   get_media request and returns None; the only exception it lets through
   is the one a lookup raised. *)
C7_ReadAbsent ==
    (frame.op = "read" /\ Container(frame.path) \in FolderIds
        /\ Lookup(files0, Container(frame.path), frame.name) = None) =>
        /\ request.kind # "get_media"
        /\ "get_media" \notin Kinds(reqlog)
        /\ Returned("read") => frame.result = None
        /\ (Finished("read") /\ frame.outcome = "raised") =>
              /\ request.kind = "list"
              /\ frame.exc.attempt = Calls(rtrace)
              /\ Caught(frame.exc.type) => Calls(rtrace) = max_retry + 1

C7_Witness ==
    /\ Returned("read")
    /\ Container(frame.path) = "d2"
    /\ Lookup(files0, "d2", frame.name) = None
    /\ Lookup(files0, "d1", frame.name) # None
    /\ frame.result = None

-----------------------------------------------------------------------------
(* Path resolution and listing: C8, C9, C10 (checked under SpecList) *)

Succeeded(log) == SelectSeq(log, LAMBDA e : e.ok)

(* the lookup of segment i of a path: the name under the container that the
   segments before it name *)
LookupOf(segs, i) ==
    [NoRequest EXCEPT
        !.kind = "list",
        !.q = "'" \o Walk("root", SubSeq(segs, 1, i - 1))
                  \o "' in parents and name='" \o segs[i] \o "'",
        !.fields = <<"files(id)">>]

(* C8: for a path of n segments that exists, get_path_id returns the
   identifier of the leaf; the lookups that were answered are exactly n, the
   i-th asking for segment i under the identifier the (i-1)-th returned
   (root for the first); when no attempt failed these are all the requests
   sent, and for n = 0 the result is root with no request at all. *)
C8_ResolvePath ==
    (Returned("get_path_id") /\ Walk("root", frame.path.segs) # None) =>
        LET segs == frame.path.segs
            done == Succeeded(reqlog)
        IN  /\ frame.result = Walk("root", segs)
            /\ Len(done) = Len(segs)
            /\ \A i \in 1..Len(segs) : done[i].req = LookupOf(segs, i)
            /\ (\A i \in 1..Len(reqlog) : reqlog[i].ok) => reqlog = done
            /\ segs = <<>> => frame.result = "root" /\ reqlog = <<>>

C8_Witness ==
    /\ Returned("get_path_id")
    /\ frame.path.segs = <<"dirA", "subdir1">>
    /\ frame.result = "d2"
    /\ Len(reqlog) = 2
    /\ files # <<>>

(* the file records a listing with this filter and selection is due *)
Listing(fs, q, fields) ==
    LET all == Matching(fs, q)
    IN  [i \in 1..Len(all) |-> Resource(all[i], fields)]

(* C9, as claimed: a list call that returns has handed back every record
   that matches its filter, once, in the order of the service, as the file
   records of the pages. *)
C9_ListAllPages ==
    Returned("list") => frame.out = Listing(files, frame.q, frame.fields)

(* C10, as claimed: when the caller's fields selection does not mention
   nextPageToken, every page request carries a selection that does. *)
C10_CursorInjected ==
    (frame.op = "list" /\ request.kind = "list" /\ frame.stage = "page"
        /\ frame.fields # <<>> /\ ~MentionsToken(frame.fields)) =>
        MentionsToken(request.fields)

-----------------------------------------------------------------------------
(* The filter of a listing: C11 (checked under SpecList) *)

(* a listing is under way, through list or through each_files itself *)
InListing == frame.op \in {"list", "each_files"} /\ frame.stage = "page"

ListingReturned ==
    pc = "idle" /\ frame.op \in {"list", "each_files"}
        /\ frame.outcome = "returned"

(* the page requests of the operation, one per attempt *)
PageAttempts == SelectSeq(reqlog, LAMBDA e : e.stage = "page")

(* C11: every page request of a listing carries the filter
   "'<id>' in parents and <query>" when each_files was given a parent and a
   query, "'<id>' in parents" when only a parent, the query alone when only
   a query and the empty filter when neither; all page requests of one
   listing carry the same filter. *)
C11_ListFilter ==
    InListing =>
        LET parent == frame.parent_id
            query == frame.query
            hasParent == parent \notin {None, ""}
            hasQuery == query \notin {None, ""}
            filter ==
                CASE hasParent /\ hasQuery ->
                        "'" \o parent \o "' in parents and " \o query
                  [] hasParent /\ ~hasQuery -> "'" \o parent \o "' in parents"
                  [] ~hasParent /\ hasQuery -> query
                  [] OTHER -> ""
        IN  /\ pc \in {"try", "sleep", "resume"} =>
                  request.kind = "list" /\ request.q = filter
            /\ \A i \in 1..Len(PageAttempts) :
                  PageAttempts[i].req.q = filter

C11_Witness ==
    /\ Returned("list")
    /\ frame.parent_id = "d1"
    /\ frame.query = "name='x'"
    /\ request.q = "'d1' in parents and name='x'"
    /\ request.pageToken # <<>>
    /\ Len(PageAttempts) >= 2
    /\ Len(frame.out) = 3

-----------------------------------------------------------------------------
(* The with statement: C12 (checked under SpecSession) *)

(* C12: the service handle is not closed while the with statement has not
   left; once it has left, by completion of the body or by an exception of
   the body, the handle has been closed exactly once, and an exception of
   the body goes on to the caller of the with statement unchanged. *)
C12_ClosedOnceOnExit ==
    /\ session.scope # "exited" => session.closed = 0
    /\ session.scope = "exited" =>
          /\ session.closed = 1
          /\ session.propagated = session.body

(* an operation of the body exhausted its retries and raised, the with
   statement left with that exception *)
C12_Witness ==
    /\ session.scope = "exited"
    /\ session.closed = 1
    /\ frame.outcome = "raised"
    /\ session.body = frame.exc
    /\ session.body.type = "TimeoutError"
    /\ session.propagated = session.body

-----------------------------------------------------------------------------
(* One transient failure is masked: C13 (checked under SpecSession) *)

Failed(log) == SelectSeq(log, LAMBDA e : ~e.ok)

(* C13, as claimed: with max_retry >= 1 one transient failure does not make
   an operation fail.  No operation raises when the request it raised on
   was due an answer without error on the store the operation was called
   on, its first failed attempt (a TimeoutError or a 503) was the only
   failure the operation met from outside, and whatever failed after it
   was the service's own answer 404 to the request sent again. *)
C13_SingleFailureMasked ==
    ~(/\ pc = "idle"
      /\ frame.outcome = "raised"
      /\ max_retry >= 1
      /\ RemoteStatus(files0, request) = 0
      /\ Len(Failed(reqlog)) = Len(Failures(rtrace))
      /\ LET failures == Failures(rtrace)
         IN  /\ failures # <<>>
             /\ Transient(failures[1])
             /\ \A i \in 2..Len(failures) :
                   failures[i].type = "HttpError" /\ failures[i].status = 404)

-----------------------------------------------------------------------------
(* Termination of the retry loop: C14 (checked under SpecRetry) *)

(* C14, as claimed: whatever max_retry is configured (0 and negative values
   included), a call of the retry wrapper ends after a bounded number of
   attempts even when every attempt fails.  The loop gives up only at
   ctry = max_retry and ctry only grows, so it ends under such failures if
   and only if it never goes on to a further attempt with the counter past
   max_retry: whenever it sleeps to try again, ctry <= max_retry. *)
C14_RetryTerminates ==
    pc = "sleep" => ctry <= max_retry

-----------------------------------------------------------------------------
(* The page loop: C15 (checked under SpecGen) *)

(* the token of the last response among the first k page attempts; no
   token when none of them was answered *)
RECURSIVE TokenAfter(_, _)
TokenAfter(P, k) ==
    IF k = 0 THEN <<>>
    ELSE IF P[k].ok THEN ListResponse(files, P[k].req).nextPageToken
    ELSE TokenAfter(P, k - 1)

(* the file records of the pages that answered the first k page attempts *)
RECURSIVE RecordsAfter(_, _)
RecordsAfter(P, k) ==
    IF k = 0 THEN <<>>
    ELSE RecordsAfter(P, k - 1)
            \o (IF P[k].ok THEN ListResponse(files, P[k].req).files
                ELSE <<>>)

(* C15: in one listing the first page request carries no token and every
   later one exactly the token of the response before it; a page is asked
   for only when every record of the pages before it has been handed to the
   consumer; no request follows a response without a token, and the listing
   returns after such a response. *)
C15_PageChain ==
    InListing =>
        LET P == PageAttempts
            n == Len(P)
        IN  /\ \A i \in 1..n :
                  /\ P[i].req.pageToken = TokenAfter(P, i - 1)
                  /\ (i > 1 /\ P[i - 1].ok) => P[i].req.pageToken # <<>>
            /\ pc \in {"try", "sleep"} =>
                  /\ request.pageToken = TokenAfter(P, n)
                  /\ frame.page = <<>>
                  /\ frame.out = RecordsAfter(P, n)
            /\ ListingReturned =>
                  /\ n > 0
                  /\ P[n].ok
                  /\ TokenAfter(P, n) = <<>>
                  /\ frame.out = RecordsAfter(P, n)

(* three pages, each asked for with the token of the one before *)
C15_Witness ==
    /\ ListingReturned
    /\ frame.op = "each_files"
    /\ Len(Succeeded(PageAttempts)) = 3
    /\ Succeeded(PageAttempts)[2].req.pageToken = <<2>>
    /\ Succeeded(PageAttempts)[3].req.pageToken = <<4>>
    /\ Len(frame.out) = 5

-----------------------------------------------------------------------------
(* A path with a missing segment: C16 (checked under SpecList) *)

(* the first segment of a path that does not resolve *)
FirstMissing(segs) ==
    CHOOSE i \in 1..Len(segs) :
        /\ Walk("root", SubSeq(segs, 1, i)) = None
        /\ \A j \in 1..(i - 1) : Walk("root", SubSeq(segs, 1, j)) # None

(* the lookup of a name after a segment failed to resolve *)
LookupUnderNone(name) ==
    [NoRequest EXCEPT
        !.kind = "list",
        !.q = "'None' in parents and name='" \o name \o "'",
        !.fields = <<"files(id)">>]

(* C16: when segment i of a path of n segments does not resolve,
   get_path_id still sends all n lookups, those after segment i with None
   as the parent, and returns None; it raises only when a request failed.
   A read with such a path looks the name up under None too, returns None
   and fetches no content. *)
C16_MissingSegment ==
    (pc = "idle" /\ frame.op \in {"get_path_id", "read"}
        /\ ~frame.path.isstr /\ Walk("root", frame.path.segs) = None) =>
        LET segs == frame.path.segs
            n == Len(segs)
            done == Succeeded(reqlog)
        IN  /\ frame.outcome = "raised" => Failed(reqlog) # <<>>
            /\ frame.outcome = "returned" =>
                  /\ frame.result = None
                  /\ \A i \in 1..n :
                        done[i].req = IF i <= FirstMissing(segs)
                                      THEN LookupOf(segs, i)
                                      ELSE LookupUnderNone(segs[i])
                  /\ frame.op = "get_path_id" => Len(done) = n
                  /\ frame.op = "read" =>
                        /\ Len(done) = n + 1
                        /\ done[n + 1].req = LookupUnderNone(frame.name)
                        /\ "get_media" \notin Kinds(reqlog)

(* the second of three segments is missing: three lookups, the third under
   None, and the result is None *)
C16_Witness ==
    /\ Returned("get_path_id")
    /\ frame.path.segs = <<"dirA", "nodir", "subdir1">>
    /\ frame.result = None
    /\ Len(reqlog) = 3
    /\ reqlog[2].req.q = "'d1' in parents and name='nodir'"
    /\ reqlog[3].req.q = "'None' in parents and name='subdir1'"
    /\ files # <<>>

-----------------------------------------------------------------------------
(* Writes never duplicate a name: C17 (checked under Spec) *)

(* C17, as claimed: a write to a name that was absent under its parent
   leaves, at every moment of the call and after it, at most one file of
   that name under the parent, whatever attempts of its requests failed. *)
C17_AtMostOne ==
    (frame.op = "write" /\ Container(frame.path) \in FolderIds
        /\ Lookup(files0, Container(frame.path), frame.name) = None) =>
        Len(Named(files, Container(frame.path), frame.name)) <= 1

-----------------------------------------------------------------------------
(* A listing under a path is scoped to a parent: C18 (checked under
   SpecList) *)

(* a path argument that is a non-empty identifier or a non-empty sequence *)
NonEmptyPath(path) ==
    IF path.isstr THEN path.id # "" ELSE path.segs # <<>>

(* the filters that hold a parent clause, alone or before this query *)
WithParentClause(query) ==
    LET clauses == { "'" \o id \o "' in parents" :
                        id \in FolderIds \cup {"None"} }
    IN  clauses \cup (IF query \in {None, ""} THEN {}
                      ELSE { c \o " and " \o query : c \in clauses })

(* C18, as claimed: every page request of a list call with a non-empty path
   carries a filter with a parent clause, also when the segments of the
   path do not resolve. *)
C18_ParentClause ==
    (frame.op = "list" /\ frame.stage = "page" /\ NonEmptyPath(frame.path)) =>
        request.q \in WithParentClause(frame.query)

-----------------------------------------------------------------------------
(* The retry budget is per call: C19 (checked under SpecRetry) *)

(* the attempts of the operation since its last answered request *)
SinceLastAnswer(log) ==
    LET answered == { i \in 1..Len(log) : log[i].ok }
        last == IF answered = {} THEN 0
                ELSE CHOOSE i \in answered : \A j \in answered : j <= i
    IN  Len(log) - last

(* C19: the retry counter belongs to one wrapped call: while a call is
   under way the counter is the number of failures of that call alone,
   whatever failed in the calls before it; a call that gives up has made
   max_retry + 1 attempts of its own; and a path resolution of m lookups
   sends at most m * (max_retry + 1) requests. *)
C19_FreshBudget ==
    /\ pc \in {"try", "sleep"} => ctry = Len(Failures(rtrace))
    /\ max_retry >= 0 =>
          /\ (frame.outcome = "raised" /\ Caught(frame.exc.type)) =>
                SinceLastAnswer(reqlog) = max_retry + 1
          /\ frame.op = "get_path_id" =>
                Len(reqlog) <= Len(frame.path.segs) * (max_retry + 1)

(* both lookups of a path used their whole budget: the first was answered
   at its last attempt, the second gave up after max_retry + 1 attempts *)
C19_Witness ==
    /\ pc = "idle"
    /\ frame.op = "get_path_id"
    /\ frame.outcome = "raised"
    /\ max_retry = 3
    /\ Len(frame.path.segs) = 2
    /\ Len(reqlog) = 8
    /\ reqlog[4].ok
    /\ Len(Failed(reqlog)) = 7

-----------------------------------------------------------------------------
(* Retried page fetches: C20 (checked under SpecGen) *)

(* the records a page loop hands out from this request on when no attempt
   fails: the page of the request, then the pages its tokens lead to *)
RECURSIVE PagesFrom(_)
PagesFrom(req) ==
    LET resp == ListResponse(files, req)
    IN  resp.files
            \o (IF resp.nextPageToken = <<>> THEN <<>>
                ELSE PagesFrom([req EXCEPT
                                   !.pageToken = resp.nextPageToken]))

IsPrefix(a, b) == Len(a) <= Len(b) /\ SubSeq(b, 1, Len(a)) = a

(* C20: a page attempt that follows a failed one is the same request, token
   included; the records handed out, with those of the page in hand, are
   always a beginning of the sequence a listing without failures hands out,
   and a listing that returns has handed out exactly that sequence; when
   the retries of a page are exhausted, the records of every page answered
   before it have been handed out. *)
C20_RetriedPage ==
    (InListing /\ PageAttempts # <<>>) =>
        LET P == PageAttempts
            n == Len(P)
            due == PagesFrom(P[1].req)
        IN  /\ \A i \in 2..n : ~P[i - 1].ok => P[i].req = P[i - 1].req
            /\ IsPrefix(frame.out \o frame.page, due)
            /\ ListingReturned => frame.out = due
            /\ frame.outcome = "raised" =>
                  /\ frame.page = <<>>
                  /\ frame.out = RecordsAfter(P, n)
                  /\ IsPrefix(frame.out, due)

(* the fetch of the second page failed once and was sent again with the
   same token; the listing is complete and in order *)
C20_Witness ==
    /\ ListingReturned
    /\ frame.op = "each_files"
    /\ Len(PageAttempts) = 4
    /\ PageAttempts[1].ok
    /\ ~PageAttempts[2].ok
    /\ PageAttempts[2].req.pageToken = <<2>>
    /\ PageAttempts[3].req.pageToken = <<2>>
    /\ PageAttempts[3].ok
    /\ Len(frame.out) = 5

====
